---- MODULE Spec2Model ----
(***************************************************************************)
(* Real-time collaboration core of the pair-programming backend:           *)
(*   app/services/websocket_manager.py  WebSocketManager                   *)
(*   app/routers/websocket.py           websocket_endpoint                 *)
(*   app/schemas/websocket.py           WebSocketMessage                   *)
(*   app/services/room_service.py       the rooms table                    *)
(*                                                                         *)
(* Every connection is served by one asyncio task running                  *)
(* websocket_endpoint.  Tasks are cooperative: an action of this module is *)
(* the code one task runs between two suspension points (await on the      *)
(* database, on receive_text, on send_text, on accept).  A database call   *)
(* is two actions: the statement taking effect in the database, and the    *)
(* task resuming with its result.                                          *)
(***************************************************************************)
EXTENDS Integers, Sequences, FiniteSets, TLC

\* ------------------------------------------------------------- bounds
NSessions == 3
MaxMsgs == 1
MaxFaults == 1
\* The two-message specification: fewer connections, one more text.
NPair == 2
MaxPairMsgs == 2
\* The edit specification: two connections, three code_updates.
MaxEdits == 3

Sessions == 1..NSessions
Rooms == {"r1", "r2"}
RoomNo(r) == IF r = "r1" THEN 1 ELSE 2
\* The texts are pairwise distinct: the n-th text received carries code cn.
CodeOf(n) == IF n = 1 THEN "c1" ELSE IF n = 2 THEN "c2" ELSE IF n = 3 THEN "c3" ELSE "c4"

\* Python's None / an absent JSON field.
NoVal == "null"

\* JSON values a client may put in the timestamp field: null/absent, an
\* integer, a numeric string, a non-numeric string.
TsNull == [t |-> "null", v |-> 0]
TsInt(n) == [t |-> "int", v |-> n]
TsWire ==
    {TsNull, [t |-> "int", v |-> 1], [t |-> "numstr", v |-> 1], [t |-> "str", v |-> 0]}

\* Texts a client may send: not JSON, JSON that is no object, or an object
\* with the fields type, code and timestamp.
Payloads ==
    {[kind |-> "badjson", type |-> NoVal, code |-> NoVal, timestamp |-> TsNull],
     [kind |-> "nonobject", type |-> NoVal, code |-> NoVal, timestamp |-> TsNull]}
    \cup {[kind |-> "object", type |-> ty, code |-> c, timestamp |-> ts] :
            ty \in {"code_update", "initial_state", "error", "foo", NoVal},
            c \in {"text", NoVal}, ts \in TsWire}

\* The one text of clients that only type: a code_update with a code that
\* no other text carries, and no timestamp.
TypingPayloads ==
    {[kind |-> "object", type |-> "code_update", code |-> "text",
      timestamp |-> TsNull]}

\* Edits of two clients that type, and retype, one of two texts.
EditPayloads ==
    {[kind |-> "object", type |-> "code_update", code |-> c, timestamp |-> ts] :
        c \in {"a", "b"}, ts \in {TsNull, TsInt(1)}}

VARIABLES
    store,               \* rooms table: room_id -> code, for the rows that exist
    active_connections,  \* WebSocketManager.active_connections: room_id -> list
    pc,                  \* where each connection's task is suspended
    room,                \* room_id path parameter of each connection
    transport,           \* state of each connection's WebSocket
    close_reason,        \* reason of the close frame the server sent, if any
    inbox,               \* messages delivered to each client, in order
    cur,                 \* the message a task is dispatching (or dispatched last)
    iter,                \* broadcast's loop state of each task
    snapshot,            \* result of get_room held by send_initial_state
    nmsgs,               \* number of messages received so far, over all tasks
    nfaults,             \* number of database statements that raised so far
    poisoned,            \* the task's database session holds a failed transaction
    orm                  \* code of the Room object alive in the task's session

vars == <<store, active_connections, pc, room, transport, close_reason, inbox,
          cur, iter, snapshot, nmsgs, nfaults, poisoned, orm>>

\* ------------------------------------------------ WebSocketManager (pure)

\* list.remove(x): drops the first occurrence of x.
RECURSIVE Remove(_, _)
Remove(l, x) ==
    IF l = <<>> THEN <<>>
    ELSE IF Head(l) = x THEN Tail(l)
    ELSE <<Head(l)>> \o Remove(Tail(l), x)

Contains(l, x) == \E i \in 1..Len(l) : l[i] = x

Members(ac, r) == IF r \in DOMAIN ac THEN {ac[r][i] : i \in 1..Len(ac[r])} ELSE {}

\* connect, were it to append the websocket to the room's list twice.
connect_duplicate(ac, r, ws) ==
    IF r \in DOMAIN ac THEN [ac EXCEPT ![r] = Append(Append(@, ws), ws)]
    ELSE [x \in DOMAIN ac \cup {r} |-> IF x = r THEN <<ws, ws>> ELSE ac[x]]

\* connect, were it to register the websocket in a fresh list every time.
connect_overwrite(ac, r, ws) ==
    [x \in DOMAIN ac \cup {r} |-> IF x = r THEN <<ws>> ELSE ac[x]]

\* WebSocketManager.connect, after accept() returned.
connect(ac, r, ws) ==
    LET ac1 == IF r \notin DOMAIN ac THEN ac @@ (r :> <<>>) ELSE ac
    IN  [ac1 EXCEPT ![r] = Append(@, ws)]

\* disconnect, were it to leave the emptied room entry in place.
disconnect_keep_empty(ac, r, ws) ==
    IF r \in DOMAIN ac
    THEN [ac EXCEPT ![r] = IF Contains(@, ws) THEN Remove(@, ws) ELSE @]
    ELSE ac

\* disconnect, were it to delete by position when the websocket is not found.
disconnect_by_position(ac, r, ws) ==
    IF r \in DOMAIN ac
    THEN LET l == IF Contains(ac[r], ws) THEN Remove(ac[r], ws) ELSE Tail(ac[r])
         IN  IF Len(l) = 0
             THEN [x \in DOMAIN ac \ {r} |-> ac[x]]
             ELSE [ac EXCEPT ![r] = l]
    ELSE ac

\* WebSocketManager.disconnect.
disconnect(ac, r, ws) ==
    IF r \in DOMAIN ac
    THEN LET l == IF Contains(ac[r], ws) THEN Remove(ac[r], ws) ELSE ac[r]
         IN  IF Len(l) = 0
             THEN [x \in DOMAIN ac \ {r} |-> ac[x]]
             ELSE [ac EXCEPT ![r] = l]
    ELSE ac

\* broadcast's cleanup loop: disconnect every websocket whose send failed.
RECURSIVE DisconnectAll(_, _, _)
DisconnectAll(ac, r, failed) ==
    IF failed = <<>> THEN ac
    ELSE DisconnectAll(disconnect(ac, r, Head(failed)), r, Tail(failed))

\* ------------------------------------------------------- messages (pure)

Msg(ty, c, ts, text, rid, from, mid) ==
    [type |-> ty, code |-> c, timestamp |-> ts, message |-> text,
     roomId |-> rid, src |-> from, mid |-> mid]

ErrorMsg(text, s, mid) == Msg("error", NoVal, TsNull, text, NoVal, s, mid)

\* WebSocketMessage(**message_dict): the validated fields, or no message.
\* type is a required string; timestamp is Optional[int], and a numeric
\* string is coerced to the integer it spells.
SchemaValid(p) == p.type # NoVal /\ p.timestamp.t # "str"
Coerce(ts) == IF ts.t = "numstr" THEN TsInt(ts.v) ELSE ts

\* The dispatch, were it to lack the check of message.code.
Classify_no_code_check(p) ==
    IF p.kind = "badjson" THEN "badjson"
    ELSE IF p.kind = "nonobject" THEN "nonobject"
    ELSE IF ~SchemaValid(p) THEN "invalid"
    ELSE IF p.type # "code_update" THEN "unknown"
    ELSE "code_update"

\* What the dispatch of one received text comes to, up to its first await.
Classify(p) ==
    IF p.kind = "badjson" THEN "badjson"
    ELSE IF p.kind = "nonobject" THEN "nonobject"
    ELSE IF ~SchemaValid(p) THEN "invalid"
    ELSE IF p.type # "code_update" THEN "unknown"
    ELSE IF p.code = NoVal THEN "missing_code"
    ELSE "code_update"

\* The class of a received text under the protocol's dispatch rules: what
\* the client sent, whatever the endpoint makes of it.
InputClass(p) ==
    IF p.kind # "object" \/ p.type = NoVal \/ p.timestamp.t = "str" THEN "malformed"
    ELSE IF p.type # "code_update" THEN "unknown"
    ELSE IF p.code = NoVal THEN "missing_code"
    ELSE "code_update"

\* cur: mid numbers the received texts; input and kind say what the text was
\* and which branch dispatched it; type is message.type of a text that passed
\* the schema; code, wire_ts (as sent) and timestamp (as validated) are the
\* fields of a code_update in flight; calls counts the runs of
\* update_room_code for it and res is the result of the last one; bcast says
\* whether broadcast was called for it and found the room's entry.
NoCur == [mid |-> 0, input |-> "none", kind |-> "none", type |-> NoVal,
          code |-> NoVal, wire_ts |-> TsNull, timestamp |-> TsNull, calls |-> 0,
          res |-> "pending", bcast |-> "none"]
\* iter: idx is the for loop's position in the list, stale says the list is no
\* longer the room's entry, failed is disconnected_websockets, targets the
\* members (but the sender) when the broadcast began.
NoIter == [idx |-> 1, stale |-> FALSE, failed |-> <<>>, targets |-> {}]
NoSnapshot == [res |-> "none", code |-> NoVal]
EmptyMap == [x \in {} |-> NoVal]

\* ----------------------------------------------------------------- Init
Init ==
    /\ store = EmptyMap
    /\ active_connections = EmptyMap
    /\ pc = [s \in Sessions |-> "idle"]
    /\ room = [s \in Sessions |-> NoVal]
    /\ transport = [s \in Sessions |-> "none"]
    /\ close_reason = [s \in Sessions |-> NoVal]
    /\ inbox = [s \in Sessions |-> <<>>]
    /\ cur = [s \in Sessions |-> NoCur]
    /\ iter = [s \in Sessions |-> NoIter]
    /\ snapshot = [s \in Sessions |-> NoSnapshot]
    /\ nmsgs = 0
    /\ nfaults = 0
    /\ poisoned = [s \in Sessions |-> FALSE]
    /\ orm = [s \in Sessions |-> NoVal]

\* ------------------------------------------------------ action fragments

\* A broadcast that is suspended in its for loop iterates a list object.
\* Deleting the room's entry leaves that (empty) list to the loop, and a later
\* connect makes a new list: the loop never sees the new one.
Detach(ac2) ==
    [t \in Sessions |->
        IF pc[t] = "bcast" /\ room[t] \in DOMAIN active_connections
              /\ room[t] \notin DOMAIN ac2
        THEN [iter[t] EXCEPT !.stale = TRUE]
        ELSE iter[t]]

\* websocket_endpoint's two except clauses: disconnect, and the endpoint
\* returns, which closes the socket.
Terminate(s) ==
    LET ac2 == disconnect(active_connections, room[s], s)
    IN  /\ active_connections' = ac2
        /\ iter' = [Detach(ac2) EXCEPT ![s] = NoIter]
        /\ pc' = [pc EXCEPT ![s] = "closed"]
        /\ transport' = [transport EXCEPT ![s] = "closed"]
        /\ UNCHANGED inbox

\* await websocket.send_text(json.dumps(m)) to the task's own client, inside
\* the endpoint's try: the loop goes on, or the send raises and the endpoint's
\* except clause runs.  The await has no timeout: while the client takes
\* nothing the send does not return.
Reply(s, m) ==
    /\ transport[s] # "stalled"
    /\ IF transport[s] = "open"
       THEN /\ inbox' = [inbox EXCEPT ![s] = Append(@, m)]
            /\ pc' = [pc EXCEPT ![s] = "recv"]
            /\ UNCHANGED <<active_connections, iter, transport>>
       ELSE Terminate(s)

\* The locals of one dispatch (message, updated_room) die when the loop
\* iterates: what stays is which text was dispatched last, and how.
Forget(c, s) ==
    IF pc'[s] = "recv"
    THEN [c EXCEPT ![s] = [NoCur EXCEPT !.mid = c[s].mid, !.input = c[s].input,
                                          !.kind = c[s].kind, !.type = c[s].type,
                                          !.calls = c[s].calls,
                                          !.bcast = c[s].bcast]]
    ELSE c

\* The loop of broadcast, were it to send to every connection of the list.
NextTarget_no_exclude(l, idx, exclude) == idx

\* The index of the next connection the for loop of broadcast sends to, from
\* position idx on: the excluded websocket is passed over without an await.
NextTarget(l, idx, exclude) ==
    IF idx <= Len(l) /\ l[idx] = exclude THEN idx + 1 ELSE idx

\* One run of broadcast between two awaits: the loop takes the next
\* connection and sends to it, or the list is exhausted and the failed
\* websockets are disconnected, and the endpoint awaits the next message.
\* await connection.send_text has no timeout: the loop stays at a connection
\* that takes nothing until the send returns or raises.
BroadcastRun(s, it) ==
    LET r == room[s]
        l == IF it.stale \/ r \notin DOMAIN active_connections
             THEN <<>> ELSE active_connections[r]
        j == NextTarget(l, it.idx, s)
        m == Msg("code_update", cur[s].code, cur[s].timestamp, NoVal, NoVal,
                 s, cur[s].mid)
    IN  IF j <= Len(l) /\ transport[l[j]] = "stalled"
        THEN /\ iter' = [iter EXCEPT ![s] = [it EXCEPT !.idx = j]]
             /\ pc' = [pc EXCEPT ![s] = "bcast"]
             /\ UNCHANGED <<active_connections, transport, inbox>>
        ELSE IF j <= Len(l)
        THEN LET k == l[j]
                 ok == transport[k] = "open"
             IN  /\ inbox' = IF ok THEN [inbox EXCEPT ![k] = Append(@, m)] ELSE inbox
                 /\ iter' = [iter EXCEPT ![s] =
                        [it EXCEPT !.idx = j + 1,
                                   !.failed = IF ok THEN @ ELSE Append(@, k)]]
                 /\ pc' = [pc EXCEPT ![s] = "bcast"]
                 /\ UNCHANGED <<active_connections, transport>>
        ELSE LET ac2 == DisconnectAll(active_connections, r, it.failed)
             IN  /\ active_connections' = ac2
                 /\ iter' = [Detach(ac2) EXCEPT ![s] = NoIter]
                 /\ pc' = [pc EXCEPT ![s] = "recv"]
                 /\ UNCHANGED <<inbox, transport>>

\* The dispatch, were its reply to an unknown type to leave the type out.
DispatchError_no_type(k, p) ==
    IF k = "badjson" THEN "Invalid JSON format"
    ELSE IF k = "invalid" THEN "Invalid message format"
    ELSE IF k = "unknown" THEN "Unknown message type"
    ELSE "Missing 'code' field in code_update message"

\* The error text of each dispatch rule that replies at once.
DispatchError(k, p) ==
    IF k = "badjson" THEN "Invalid JSON format"
    ELSE IF k = "invalid" THEN "Invalid message format"
    ELSE IF k = "unknown" THEN "Unknown message type: " \o p.type
    ELSE "Missing 'code' field in code_update message"

\* The endpoint, were it to broadcast whatever update_room_code came to.
AfterUpdateBranch_always_broadcast(res) == "broadcast"

\* What the endpoint does with update_room_code's result.
AfterUpdateBranch(res) ==
    IF res = "ok" THEN "broadcast"
    ELSE IF res = "none" THEN "Failed to update room code"
    ELSE "Database error occurred"

\* -------------------------------------------------------------- actions

\* A database statement raises SQLAlchemyError.
Fault == nfaults < MaxFaults /\ nfaults' = nfaults + 1

\* POST /rooms: a new row with empty code.  The room ids are fresh uuids: they
\* are named r1, r2 in the order of their creation.
create_room(r) ==
    /\ r \notin DOMAIN store
    /\ \A q \in Rooms : RoomNo(q) < RoomNo(r) => q \in DOMAIN store
    /\ store' = store @@ (r :> "")
    /\ UNCHANGED <<active_connections, pc, room, transport, close_reason, inbox,
                   cur, iter, snapshot, nmsgs, nfaults, poisoned, orm>>

\* The endpoint, were it to skip the check of the room.
room_exists_unchecked(st, r) == TRUE

\* room_exists(db, room_id): whether the SELECT finds a row.
room_exists(st, r) == r \in DOMAIN st

\* A client opens /ws/{room_id} and the endpoint runs up to the await of
\* get_room in send_initial_state.  The awaits of room_exists and of accept
\* touch no state another task reads, so the first step another task can
\* observe is connect's registration.  Connections are numbered in the order
\* they are opened.
\*   - room_exists is false: close(code=4004, reason="Room not found"), return;
\*   - room_exists raises SQLAlchemyError: the endpoint ends;
\*   - the client is gone when accept runs: accept raises, outside the try;
\*   - else connect registers the websocket.
websocket_connect(s, r) ==
    /\ pc[s] = "idle"
    /\ \A t \in Sessions : t < s => pc[t] # "idle"
    /\ room' = [room EXCEPT ![s] = r]
    /\ \/ /\ ~room_exists(store, r)
          /\ pc' = [pc EXCEPT ![s] = "closed"]
          /\ transport' = [transport EXCEPT ![s] = "closed"]
          /\ close_reason' = [close_reason EXCEPT ![s] = "Room not found"]
          /\ UNCHANGED <<active_connections, nfaults>>
       \/ /\ Fault
          /\ pc' = [pc EXCEPT ![s] = "closed"]
          /\ transport' = [transport EXCEPT ![s] = "closed"]
          /\ UNCHANGED <<active_connections, close_reason>>
       \/ /\ room_exists(store, r)
          /\ pc' = [pc EXCEPT ![s] = "closed"]
          /\ transport' = [transport EXCEPT ![s] = "closed"]
          /\ UNCHANGED <<active_connections, close_reason, nfaults>>
       \/ /\ room_exists(store, r)
          /\ transport' = [transport EXCEPT ![s] = "open"]
          /\ active_connections' = connect(active_connections, r, s)
          /\ pc' = [pc EXCEPT ![s] = "get_room"]
          /\ UNCHANGED <<close_reason, nfaults>>
    /\ UNCHANGED <<store, inbox, cur, iter, snapshot, nmsgs, poisoned, orm>>

\* The client (or the network) closes the connection.
ClientClose(s) ==
    /\ transport[s] \in {"open", "stalled"}
    /\ transport' = [transport EXCEPT ![s] = "closed"]
    /\ UNCHANGED <<store, active_connections, pc, room, close_reason, inbox,
                   cur, iter, snapshot, nmsgs, nfaults, poisoned, orm>>

\* The client stops reading (or the network stops taking data) while the
\* connection stays up: from then on a send to it does not return.
ClientStall(s) ==
    /\ transport[s] = "open"
    /\ transport' = [transport EXCEPT ![s] = "stalled"]
    /\ UNCHANGED <<store, active_connections, pc, room, close_reason, inbox,
                   cur, iter, snapshot, nmsgs, nfaults, poisoned, orm>>

\* get_room's SELECT runs in the database.  When it raises, get_room re-raises
\* without a rollback: the session's transaction (begun by room_exists) is
\* left failed when the statement or the connection failed in the database,
\* and is left usable when the error arose before the statement was sent.
GetRoom(s) ==
    /\ pc[s] = "get_room"
    /\ \/ /\ snapshot' = [snapshot EXCEPT ![s] =
                IF room[s] \in DOMAIN store
                THEN [res |-> "ok", code |-> store[room[s]]]
                ELSE [res |-> "none", code |-> NoVal]]
          /\ UNCHANGED <<nfaults, poisoned>>
       \/ /\ Fault
          /\ snapshot' = [snapshot EXCEPT ![s] = [res |-> "raise", code |-> NoVal]]
          /\ \E b \in BOOLEAN : poisoned' = [poisoned EXCEPT ![s] = b]
    /\ pc' = [pc EXCEPT ![s] = "send_initial"]
    /\ UNCHANGED <<store, active_connections, room, transport, close_reason,
                   inbox, cur, iter, nmsgs, orm>>

\* The message send_initial_state sends for a result of get_room.
InitialMessage(s, snap) ==
    IF snap.res = "ok"
    THEN Msg("initial_state", snap.code, TsNull, NoVal, room[s], s, 0)
    ELSE IF snap.res = "none" THEN ErrorMsg("Room not found", s, 0)
    ELSE ErrorMsg("Failed to retrieve initial state", s, 0)

\* send_initial_state resumes with the row and sends; the endpoint enters its
\* loop and awaits receive_text.
SendInitialState(s) ==
    /\ pc[s] = "send_initial"
    /\ Reply(s, InitialMessage(s, snapshot[s]))
    /\ snapshot' = [snapshot EXCEPT ![s] = NoSnapshot]
    /\ UNCHANGED <<store, room, close_reason, cur, nmsgs, nfaults, poisoned, orm>>

\* The endpoint, were it to hand each text to a task of its own and receive
\* on.
AwaitsText_concurrent(s) ==
    pc[s] \in {"recv", "update_room_code", "updated", "bcast"}

\* The endpoint is one loop: it is at receive_text only when the dispatch of
\* the previous text has ended (its store update and its broadcast awaited).
AwaitsText(s) == pc[s] = "recv"

\* receive_text returns a text: json.loads, WebSocketMessage(**message_dict)
\* and the dispatch, up to the first await.
Receive(s, p) ==
    LET k == Classify(p)
        mid == nmsgs + 1
    IN  /\ AwaitsText(s)
        /\ transport[s] = "open"
        /\ nmsgs' = mid
        /\ IF k = "nonobject" THEN Terminate(s)
           ELSE IF k = "code_update"
           THEN /\ pc' = [pc EXCEPT ![s] = "update_room_code"]
                /\ UNCHANGED <<active_connections, iter, transport, inbox>>
           ELSE Reply(s, ErrorMsg(DispatchError(k, p), s, 0))
        /\ cur' = Forget([cur EXCEPT ![s] =
                IF k = "code_update"
                THEN [mid |-> mid, input |-> InputClass(p), kind |-> k,
                      type |-> p.type,
                      code |-> IF p.code = "text" THEN CodeOf(mid) ELSE p.code,
                      wire_ts |-> p.timestamp,
                      timestamp |-> Coerce(p.timestamp), calls |-> 0,
                      res |-> "pending", bcast |-> "none"]
                ELSE [NoCur EXCEPT !.mid = mid, !.input = InputClass(p),
                                   !.kind = k,
                                   !.type = IF k \in {"unknown", "missing_code"}
                                            THEN p.type ELSE NoVal]], s)
        /\ UNCHANGED <<store, room, close_reason, snapshot, nfaults, poisoned, orm>>

\* receive_text raises WebSocketDisconnect.
ReceiveDisconnect(s) ==
    /\ pc[s] = "recv"
    /\ transport[s] = "closed"
    /\ Terminate(s)
    /\ UNCHANGED <<store, room, close_reason, cur, snapshot, nmsgs, nfaults,
                   poisoned, orm>>

\* The rooms table after update_room_code's commit.  get_room returns the Room
\* object the session already holds when the endpoint still references it
\* (updated_room of the previous code_update), with the code it was refreshed
\* to, not the row's; room.code = code is then no change when the two are
\* equal, and the UPDATE the commit flushes leaves the code column out.
Flushed(st, r, held, code) ==
    IF r \in DOMAIN st /\ held # code THEN [st EXCEPT ![r] = code] ELSE st

\* update_room_code in the database: the row is found and the commit writes
\* the code, or there is no row, or a statement raises SQLAlchemyError (before
\* the commit took effect, or in the refresh after it).  On a session whose
\* transaction is failed the first statement raises.  The except clause rolls
\* the session back, which expires the object the session holds; refresh
\* reloads it from the row.
UpdateRoomCode(s) ==
    LET r == room[s]
        written == Flushed(store, r, orm[s], cur[s].code)
    IN  /\ pc[s] = "update_room_code"
        /\ \/ /\ ~poisoned[s]
              /\ store' = written
              /\ cur' = [cur EXCEPT ![s].calls = @ + 1,
                    ![s].res = IF r \in DOMAIN store THEN "ok" ELSE "none"]
              /\ orm' = IF r \in DOMAIN store
                        THEN [orm EXCEPT ![s] = written[r]] ELSE orm
              /\ UNCHANGED nfaults
           \/ /\ poisoned[s]
              /\ store' = store
              /\ cur' = [cur EXCEPT ![s].calls = @ + 1, ![s].res = "raise"]
              /\ orm' = [orm EXCEPT ![s] = NoVal]
              /\ UNCHANGED nfaults
           \/ /\ ~poisoned[s]
              /\ Fault
              /\ store' = store
              /\ cur' = [cur EXCEPT ![s].calls = @ + 1, ![s].res = "raise"]
              /\ orm' = [orm EXCEPT ![s] = NoVal]
           \/ /\ ~poisoned[s]
              /\ Fault
              /\ store' = written
              /\ cur' = [cur EXCEPT ![s].calls = @ + 1, ![s].res = "raise"]
              /\ orm' = [orm EXCEPT ![s] = NoVal]
        /\ poisoned' = [poisoned EXCEPT ![s] = FALSE]
        /\ pc' = [pc EXCEPT ![s] = "updated"]
        /\ UNCHANGED <<active_connections, room, transport, close_reason, inbox,
                       iter, snapshot, nmsgs>>

\* broadcast, were the registry a mapping that makes an entry on lookup.
broadcast_no_entry_defaultdict(s) ==
    /\ active_connections' = active_connections @@ (room[s] :> <<>>)
    /\ pc' = [pc EXCEPT ![s] = "recv"]
    /\ UNCHANGED <<iter, inbox, transport>>

\* broadcast for a room that has no entry: it returns at once.
broadcast_no_entry(s) ==
    /\ pc' = [pc EXCEPT ![s] = "recv"]
    /\ UNCHANGED <<active_connections, iter, inbox, transport>>

\* The endpoint, were it to lack the try around update_room_code: the failure
\* reaches the outer except clause.
StoreFailure_unhandled(s, text) == Terminate(s)

\* The branches of the endpoint for a failed update_room_code (no room
\* returned, or the inner except clause): an error to the sender.
StoreFailure(s, text) == Reply(s, ErrorMsg(text, s, 0))

\* The endpoint resumes with update_room_code's result: it starts the
\* broadcast, or replies with an error.
AfterUpdate(s) ==
    /\ pc[s] = "updated"
    /\ IF AfterUpdateBranch(cur[s].res) = "broadcast"
       THEN IF room[s] \in DOMAIN active_connections
            THEN BroadcastRun(s, [NoIter EXCEPT
                    !.targets = Members(active_connections, room[s]) \ {s}])
            ELSE broadcast_no_entry(s)
       ELSE StoreFailure(s, AfterUpdateBranch(cur[s].res))
    /\ cur' = Forget([cur EXCEPT ![s].bcast =
                IF AfterUpdateBranch(cur[s].res) # "broadcast" THEN "none"
                ELSE IF room[s] \in DOMAIN active_connections THEN "entry"
                ELSE "noentry"], s)
    /\ UNCHANGED <<store, room, close_reason, snapshot, nmsgs, nfaults, poisoned,
                   orm>>

\* broadcast resumes after a send.
BroadcastStep(s) ==
    /\ pc[s] = "bcast"
    /\ BroadcastRun(s, iter[s])
    /\ cur' = Forget(cur, s)
    /\ UNCHANGED <<store, room, close_reason, snapshot, nmsgs, nfaults, poisoned,
                   orm>>

\* The server cancels the task of a connection while it is suspended at an
\* await (shutdown).  asyncio.CancelledError derives from BaseException since
\* Python 3.8: it passes every except Exception clause and the endpoint ends
\* without calling disconnect.  On an older interpreter it is an Exception and
\* the endpoint's except clause runs.
Cancel(s) ==
    /\ pc[s] \notin {"idle", "closed"}
    /\ \/ /\ pc' = [pc EXCEPT ![s] = "closed"]
          /\ transport' = [transport EXCEPT ![s] = "closed"]
          /\ iter' = [iter EXCEPT ![s] = NoIter]
          /\ UNCHANGED <<active_connections, inbox>>
       \/ Terminate(s)
    /\ snapshot' = [snapshot EXCEPT ![s] = NoSnapshot]
    /\ cur' = Forget(cur, s)
    /\ UNCHANGED <<store, room, close_reason, nmsgs, nfaults, poisoned, orm>>

\* The steps of the connections in S, of which at most n texts, drawn from P,
\* are received.
Step(S, n, P) ==
    \/ \E r \in Rooms : create_room(r)
    \/ \E s \in S, r \in Rooms : websocket_connect(s, r)
    \/ \E s \in S : ClientClose(s)
    \/ \E s \in S : GetRoom(s)
    \/ \E s \in S : SendInitialState(s)
    \/ \E s \in S, p \in P : nmsgs < n /\ Receive(s, p)
    \/ \E s \in S : ReceiveDisconnect(s)
    \/ \E s \in S : UpdateRoomCode(s)
    \/ \E s \in S : AfterUpdate(s)
    \/ \E s \in S : BroadcastStep(s)

Next == Step(Sessions, MaxMsgs, Payloads)

Spec == Init /\ [][Next]_vars

\* Two connections and two texts: a connection sends twice, or both send.
NextPair == Step(1..NPair, MaxPairMsgs, Payloads)

SpecPair == Init /\ [][NextPair]_vars

\* Two connections, one text, and a server that may cancel tasks.
NextCancel ==
    \/ Step(1..NPair, MaxMsgs, Payloads)
    \/ \E s \in 1..NPair : Cancel(s)

SpecCancel == Init /\ [][NextCancel]_vars

\* Two connections and three code_updates whose codes may repeat, with a
\* database that raises nothing.
InitEdits ==
    /\ store = EmptyMap
    /\ active_connections = EmptyMap
    /\ pc = [s \in Sessions |-> "idle"]
    /\ room = [s \in Sessions |-> NoVal]
    /\ transport = [s \in Sessions |-> "none"]
    /\ close_reason = [s \in Sessions |-> NoVal]
    /\ inbox = [s \in Sessions |-> <<>>]
    /\ cur = [s \in Sessions |-> NoCur]
    /\ iter = [s \in Sessions |-> NoIter]
    /\ snapshot = [s \in Sessions |-> NoSnapshot]
    /\ nmsgs = 0
    /\ nfaults = MaxFaults
    /\ poisoned = [s \in Sessions |-> FALSE]
    /\ orm = [s \in Sessions |-> NoVal]

NextEdits == Step(1..NPair, MaxEdits, EditPayloads)

SpecEdits == InitEdits /\ [][NextEdits]_vars

\* The steps of one connection's task that the event loop runs unprompted:
\* every step but the receipt of a text, which waits for the client.  Once the
\* transport is closed receive_text waits for nothing: it raises.
TaskStep(s) ==
    \/ GetRoom(s)
    \/ SendInitialState(s)
    \/ ReceiveDisconnect(s)
    \/ UpdateRoomCode(s)
    \/ AfterUpdate(s)
    \/ BroadcastStep(s)

\* Clients that may stall, code_updates only, and a database that raises
\* nothing.  The event loop runs every task that is ready (weak fairness of
\* each task's steps); nothing obliges a client to send, close or stall.
NextStall ==
    \/ Step(Sessions, MaxMsgs, EditPayloads)
    \/ \E s \in Sessions : ClientStall(s)

SpecStall ==
    InitEdits /\ [][NextStall]_vars /\ \A s \in Sessions : WF_vars(TaskStep(s))

\* Three connections and two code_updates with distinct codes, with a
\* database that raises nothing: two clients type while a third listens, or a
\* client joins while another types.
NextRace == Step(Sessions, MaxPairMsgs, TypingPayloads)

SpecRace == InitEdits /\ [][NextRace]_vars

\* ============================================================ properties

Registered(r) == Members(active_connections, r)
\* The connections of room r whose socket is open.
OpenConns(r) == {s \in Sessions : room[s] = r /\ transport[s] = "open"}
\* The connections of room r whose endpoint is running, registered or not.
Serving(r) == {s \in Sessions : room[s] = r /\ pc[s] \notin {"idle", "closed"}}
\* No task holds work: each endpoint awaits a text on an open socket, or ended.
Quiescent ==
    \A s \in Sessions : pc[s] \in {"idle", "closed"}
                          \/ (pc[s] = "recv" /\ transport[s] = "open")
Last(l) == l[Len(l)]
IsUpdateFrom(m, s) == m.type = "code_update" /\ m.src = s
\* Client k has been delivered the code_update of the text numbered mid.
Got(k, mid) == \E i \in 1..Len(inbox[k]) :
                   inbox[k][i].type = "code_update" /\ inbox[k][i].mid = mid

C2_NoEmptyRoomEntry ==
    \A r \in DOMAIN active_connections : Len(active_connections[r]) >= 1

\* The only session of a room connected, got its initial state, and was
\* disconnected: the room has no entry.
C2_Witness ==
    \E s \in Sessions :
        /\ pc[s] = "closed" /\ inbox[s] # <<>>
        /\ room[s] \notin DOMAIN active_connections
        /\ \A t \in Sessions \ {s} : room[t] # room[s]

\* C3: in every reachable state no client has been delivered a code_update
\* that its own session sent: a broadcast never delivers to the excluded
\* session.
C3_NoEcho ==
    \A s \in Sessions : \A i \in 1..Len(inbox[s]) : ~IsUpdateFrom(inbox[s][i], s)

\* A broadcast has delivered to another member of a room with three members.
C3_Witness ==
    \E s, k \in Sessions :
        /\ s # k /\ pc[s] = "bcast"
        /\ Got(k, cur[s].mid)
        /\ Cardinality(Registered(room[s])) = 3
        /\ s \in Registered(room[s])

Range(l) == {l[i] : i \in 1..Len(l)}
\* Task s ends a broadcast in this step: the loop is exhausted, the cleanup
\* runs and the endpoint awaits the next text.
Finishing(s) == pc[s] \in {"updated", "bcast"} /\ pc'[s] = "recv" /\ cur[s].res = "ok"
\* Task s receives a text of class c in this step.
Received(s, c) == nmsgs' = nmsgs + 1 /\ cur'[s].mid = nmsgs' /\ cur'[s].input = c
\* In this step client s is sent message m and no other client anything.
RepliedOnly(s, m) ==
    /\ inbox'[s] = Append(inbox[s], m)
    /\ \A k \in Sessions \ {s} : inbox'[k] = inbox[k]

\* C4: whenever a broadcast in which some send failed ends, every session
\* that was a member of the room when the broadcast began, is still a member
\* and whose send did not fail has been delivered the message, and every
\* session whose send failed is out of the registry after the cleanup.
C4_FailedSendSparesOthers ==
    [][\A s \in Sessions :
          Finishing(s) /\ iter[s].failed # <<>> =>
              /\ \A k \in (iter[s].targets \cap Registered(room[s]))
                              \ Range(iter[s].failed) : Got(k, cur[s].mid)
              /\ \A k \in Range(iter[s].failed) :
                     k \notin Members(active_connections', room[s])]_vars

\* C5: whenever the broadcast of an accepted code_update with code c and
\* integer (or no) timestamp t ends, every other session that was a member of
\* the room when it began and is still registered with an open socket has
\* been delivered a code_update with exactly c and t.
C5_EveryPeerGetsItVerbatim ==
    [][\A s \in Sessions :
          Finishing(s) /\ cur[s].wire_ts.t # "numstr" =>
              \A k \in iter[s].targets \cap Registered(room[s]) \cap OpenConns(room[s]) :
                  \E i \in 1..Len(inbox[k]) :
                      /\ IsUpdateFrom(inbox[k][i], s)
                      /\ inbox[k][i].code = cur[s].code
                      /\ inbox[k][i].timestamp = cur[s].wire_ts]_vars

\* C6: update_room_code runs exactly once for a code_update with code; a
\* code_update is delivered to another session only after that run succeeded,
\* carrying the stored code; and the step that answers a failed run (no row,
\* or an exception) delivers nothing to any session but the sender.
C6_BroadcastOnlyAfterStoreUpdate ==
    [][\A s \in Sessions :
          /\ pc'[s] = "updated" => cur'[s].calls = 1
          /\ pc[s] = "updated" /\ pc'[s] # "updated" /\ cur[s].res # "ok" =>
                \A k \in Sessions \ {s} : inbox'[k] = inbox[k]
          /\ \A k \in Sessions \ {s} :
                Len(inbox'[k]) > Len(inbox[k]) /\ IsUpdateFrom(Last(inbox'[k]), s) =>
                    /\ cur[s].res = "ok" /\ cur[s].calls = 1
                    /\ Last(inbox'[k]).code = cur[s].code]_vars

\* The store update of a code_update failed: the sender has the error reply,
\* and the other member of its room, connected all along, has no code_update.
C6_Witness ==
    \E s, k \in Sessions :
        /\ s # k /\ {s, k} \subseteq Registered(room[s]) /\ transport[k] = "open"
        /\ pc[s] = "recv" /\ cur[s].kind = "code_update" /\ cur[s].calls = 1
        /\ Last(inbox[s]).message = "Database error occurred"
        /\ \A i \in 1..Len(inbox[k]) : inbox[k][i].type # "code_update"

\* C7: the first message delivered to a connection is its initial_state,
\* with the roomId (or the error sent in its place when the read of the room
\* failed), and no later message is an initial_state.
C7_InitialStateFirst ==
    \A s \in Sessions :
        inbox[s] # <<>> =>
            /\ \/ inbox[s][1].type = "initial_state" /\ inbox[s][1].roomId = room[s]
               \/ /\ inbox[s][1].type = "error"
                  /\ inbox[s][1].message \in
                        {"Room not found", "Failed to retrieve initial state"}
            /\ \A i \in 2..Len(inbox[s]) : inbox[s][i].type # "initial_state"

\* C8: the registry never has an entry for a room without a row; a
\* connection refused with "Room not found" is closed, is in no room's list
\* and has been sent nothing; and a connection attempt to a room without a
\* row ends at once, refused with "Room not found" (or by the check raising),
\* changing neither the registry nor any inbox.
C8_RefusedBeforeSession ==
    /\ [](/\ DOMAIN active_connections \subseteq DOMAIN store
          /\ \A s \in Sessions :
                close_reason[s] = "Room not found" =>
                    /\ pc[s] = "closed" /\ inbox[s] = <<>> /\ cur[s].mid = 0
                    /\ \A r \in Rooms : s \notin Registered(r))
    /\ [][\A s \in Sessions :
            pc[s] = "idle" /\ pc'[s] # "idle" /\ room'[s] \notin DOMAIN store =>
                /\ pc'[s] = "closed"
                /\ close_reason'[s] = "Room not found" \/ nfaults' = nfaults + 1
                /\ active_connections' = active_connections
                /\ inbox' = inbox]_vars

\* A connection to a room that has no row was refused.
C8_Witness ==
    \E s \in Sessions :
        /\ close_reason[s] = "Room not found" /\ room[s] \notin DOMAIN store
        /\ pc[s] = "closed" /\ active_connections # EmptyMap

\* C9: the step that receives a code_update without code sends the sender
\* the missing-field error and nothing to anyone else, runs update_room_code
\* zero times, leaves the store and the registry as they are, with the sender
\* registered, and leaves the endpoint awaiting the next text.
C9_MissingCode ==
    [][\A s \in Sessions :
          Received(s, "missing_code") =>
              /\ RepliedOnly(s, ErrorMsg("Missing 'code' field in code_update message", s, 0))
              /\ cur'[s].calls = 0 /\ store' = store
              /\ active_connections' = active_connections
              /\ s \in Registered(room[s])
              /\ pc'[s] = "recv" /\ transport'[s] = "open"]_vars

\* A session has been answered the missing-field error and awaits its next
\* text, registered.
C9_Witness ==
    \E s \in Sessions :
        /\ cur[s].input = "missing_code" /\ pc[s] = "recv" /\ transport[s] = "open"
        /\ s \in Registered(room[s])
        /\ Last(inbox[s]).message = "Missing 'code' field in code_update message"

\* C10: the step that receives a malformed text (not JSON, JSON that is no
\* object, or an object that fails the schema) sends the sender an error and
\* nothing to anyone else, leaves the registry as it is, with the sender
\* registered, and leaves the endpoint awaiting the next text.
C10_MalformedKeepsSession ==
    [][\A s \in Sessions :
          Received(s, "malformed") =>
              /\ \E text \in {"Invalid JSON format", "Invalid message format"} :
                     RepliedOnly(s, ErrorMsg(text, s, 0))
              /\ active_connections' = active_connections
              /\ s \in Registered(room[s])
              /\ pc'[s] = "recv" /\ transport'[s] = "open"]_vars

\* C11: the step that receives a well-formed text whose type is not
\* code_update (initial_state, error or any other string) sends the sender
\* the error naming that type and nothing to anyone else, runs
\* update_room_code zero times, leaves the store and the registry as they
\* are, with the sender registered, and leaves the endpoint awaiting the next
\* text on its open socket.
C11_UnknownType ==
    [][\A s \in Sessions :
          Received(s, "unknown") =>
              /\ cur'[s].type \in {"initial_state", "error", "foo"}
              /\ RepliedOnly(s, ErrorMsg("Unknown message type: " \o cur'[s].type, s, 0))
              /\ cur'[s].calls = 0 /\ store' = store
              /\ active_connections' = active_connections
              /\ s \in Registered(room[s])
              /\ pc'[s] = "recv" /\ transport'[s] = "open"]_vars

\* A client sent a text of type initial_state, has the error naming it and
\* its endpoint awaits the next text, registered.
C11_Witness ==
    \E s \in Sessions :
        /\ cur[s].input = "unknown" /\ cur[s].type = "initial_state"
        /\ pc[s] = "recv" /\ transport[s] = "open"
        /\ s \in Registered(room[s])
        /\ Last(inbox[s]).message = "Unknown message type: initial_state"

\* C12: for every reachable registry, every room and every session,
\* disconnect applied to a session that is not a member of the room (already
\* removed, or the room has no entry) returns the registry unchanged; applied
\* twice it returns what it returns applied once; and it removes no session
\* but the one named, leaving the others in their order.  And the step in
\* which an endpoint ends after a broadcast's cleanup already removed its
\* session leaves the registry as it is.
C12_DisconnectIdempotent ==
    /\ [](\A r \in Rooms, s \in Sessions :
            LET once == disconnect(active_connections, r, s)
                twice == disconnect(once, r, s)
            IN  /\ s \notin Registered(r) => once = active_connections
                /\ twice = once
                /\ \A q \in Rooms :
                       Members(once, q) = Registered(q) \ (IF q = r THEN {s} ELSE {})
                /\ \A q \in DOMAIN once :
                       once[q] = IF q = r THEN Remove(active_connections[q], s)
                                 ELSE active_connections[q])
    /\ [][\A s \in Sessions :
            pc[s] \notin {"idle", "closed"} /\ pc'[s] = "closed"
              /\ s \notin Registered(room[s]) =>
                active_connections' = active_connections]_vars

\* A broadcast's cleanup removed a session, then the last member of the room
\* left: the session's own endpoint is about to call disconnect for a room
\* that has no entry.
C12_Witness ==
    \E s \in Sessions :
        /\ pc[s] = "recv" /\ transport[s] = "closed"
        /\ room[s] \notin DOMAIN active_connections

\* C13: the step in which the endpoint, its client still connected, resumes
\* from an update_room_code that raised or returned no room sends the sender
\* the error of that case and nothing to anyone else, starts no broadcast,
\* leaves the registry as it is, with the sender registered, and leaves the
\* endpoint awaiting the next text on its open socket.
C13_StoreFailureKeepsSession ==
    [][\A s \in Sessions :
          pc[s] = "updated" /\ pc'[s] # "updated" /\ cur[s].res # "ok"
            /\ transport[s] = "open" =>
              /\ RepliedOnly(s, ErrorMsg(IF cur[s].res = "none"
                                         THEN "Failed to update room code"
                                         ELSE "Database error occurred", s, 0))
              /\ active_connections' = active_connections
              /\ s \in Registered(room[s])
              /\ pc'[s] = "recv" /\ transport'[s] = "open"
              /\ iter'[s] = NoIter]_vars

\* update_room_code raised in the refresh after its commit: the row holds the
\* new code, the sender has the error and still awaits texts, registered, and
\* the other member of the room has been sent no code_update.
C13_Witness ==
    \E s, k \in Sessions :
        /\ s # k /\ {s, k} \subseteq Registered(room[s])
        /\ pc[s] = "recv" /\ transport[s] = "open" /\ cur[s].calls = 1
        /\ Last(inbox[s]).message = "Database error occurred"
        /\ store[room[s]] = CodeOf(cur[s].mid)
        /\ \A i \in 1..Len(inbox[k]) : inbox[k][i].type # "code_update"

\* The initial read of connection s failed: it was sent one of the two errors
\* of send_initial_state.
InitialReadFailed(s) ==
    \E i \in 1..Len(inbox[s]) :
        inbox[s][i].message \in {"Room not found", "Failed to retrieve initial state"}

\* C14: the step in which send_initial_state, its client still connected,
\* resumes from a get_room that raised or found no room sends the new session
\* the error of that case (no initial_state) and nothing to anyone else,
\* leaves the registry as it is, with the session registered, and enters the
\* receive loop; and a later code_update of that session is dispatched as for
\* any other session: its update_room_code raises only if a statement of that
\* very call fails.
C14_InitialReadFailureNotFatal ==
    [][\A s \in Sessions :
          /\ pc[s] = "send_initial" /\ pc'[s] # "send_initial"
                /\ snapshot[s].res # "ok" /\ transport[s] = "open" =>
                /\ RepliedOnly(s, ErrorMsg(IF snapshot[s].res = "none"
                                           THEN "Room not found"
                                           ELSE "Failed to retrieve initial state", s, 0))
                /\ active_connections' = active_connections
                /\ s \in Registered(room[s])
                /\ pc'[s] = "recv" /\ transport'[s] = "open"
          /\ pc[s] = "update_room_code" /\ pc'[s] = "updated"
                /\ InitialReadFailed(s) /\ cur'[s].res = "raise" =>
                nfaults' = nfaults + 1]_vars

\* C15: the step in which broadcast is called for a room that has no entry
\* in the registry delivers no message to any client, leaves the registry as
\* it is (no entry appears for the room), closes no socket, and returns to
\* the endpoint, which awaits its next text.
C15_BroadcastNoEntry ==
    [][\A s \in Sessions :
          pc[s] = "updated" /\ pc'[s] # "updated" /\ cur[s].res = "ok"
            /\ room[s] \notin DOMAIN active_connections =>
              /\ inbox' = inbox
              /\ active_connections' = active_connections
              /\ room[s] \notin DOMAIN active_connections'
              /\ transport' = transport
              /\ pc'[s] = "recv" /\ iter' = iter]_vars

\* A connection that another broadcast's cleanup removed, and whose room then
\* emptied, has stored its code_update and called broadcast for the room
\* without entry; its endpoint awaits the next text.
C15_Witness ==
    \E s \in Sessions :
        /\ cur[s].bcast = "noentry" /\ pc[s] = "recv"
        /\ room[s] \notin DOMAIN active_connections
        /\ \A k \in Sessions : ~Got(k, cur[s].mid)

\* Task s resumes in this step from an update_room_code that returned the room.
UpdateSucceeds(s) ==
    pc[s] = "update_room_code" /\ pc'[s] = "updated" /\ cur'[s].res = "ok"

\* C16: every update_room_code call that succeeds leaves its code in the
\* room's row, whatever the timestamp of the message, and no other step
\* changes the code of a row; so in every state the row holds the code of the
\* most recent successful call.
C16_LastWriteWins ==
    [][/\ \A s \in Sessions :
             UpdateSucceeds(s) => store'[room[s]] = cur[s].code
       /\ (\A s \in Sessions : ~UpdateSucceeds(s)) =>
             \A r \in DOMAIN store : store'[r] = store[r]]_vars

\* How many sends the broadcast of task s, as it stands in (ib, it), has
\* attempted to client k: the deliveries plus the failures.
Attempts(ib, it, s, k) ==
    Cardinality({i \in 1..Len(ib[k]) :
                    ib[k][i].type = "code_update" /\ ib[k][i].mid = cur[s].mid})
    + Cardinality({i \in 1..Len(it.failed) : it.failed[i] = k})

\* C17: while the broadcast of a task is suspended at a send, no step of
\* another task changes the list of the room it iterates; and when a broadcast
\* ends, every session that was a member of the room when it began and still
\* is one (the sender apart) has had exactly one send attempted.
C17_BroadcastExcludesMutation ==
    [][\A s \in Sessions :
          /\ pc[s] = "bcast" /\ pc'[s] = "bcast" /\ iter'[s].idx = iter[s].idx
                /\ room[s] \in DOMAIN active_connections =>
                /\ room[s] \in DOMAIN active_connections'
                /\ active_connections'[room[s]] = active_connections[room[s]]
          /\ Finishing(s) /\ pc[s] = "bcast" =>
                \A k \in iter[s].targets \cap Registered(room[s]) :
                    Attempts(inbox, iter[s], s, k) = 1]_vars

\* C18: the step in which the endpoint of a connection ends, whatever ended
\* it (the client's disconnect, an exception in the dispatch, a failed send of
\* a reply, the cancellation of the task), applies disconnect to the
\* connection once, also when a broadcast's cleanup removed it before; and a
\* connection whose endpoint has ended is in no room's list.
C18_DisconnectOnTermination ==
    /\ [](\A s \in Sessions : pc[s] = "closed" =>
                \A r \in Rooms : s \notin Registered(r))
    /\ [][\A s \in Sessions :
            pc[s] \notin {"idle", "closed"} /\ pc'[s] = "closed" =>
                active_connections' = disconnect(active_connections, room[s], s)]_vars

\* A broadcast's cleanup has deregistered connection k (a send to it failed)
\* and the endpoint of k has not ended.
CleanedUp(k) == pc[k] \notin {"idle", "closed"} /\ k \notin Registered(room[k])

\* C19: a failed send leaves the broadcasting task in its loop, its socket
\* and its registration as they were, and delivers nothing to anyone; when
\* the broadcast ends every connection whose send failed is out of the
\* registry; and from then on the endpoint of such a connection dispatches
\* nothing: it runs no update_room_code, changes no row and delivers no
\* message to any other client.
C19_FailedPeerIsStopped ==
    [][\A s \in Sessions :
          /\ Len(iter'[s].failed) > Len(iter[s].failed) =>
                /\ pc'[s] = "bcast" /\ transport'[s] = transport[s]
                /\ inbox' = inbox
                /\ active_connections' = active_connections
          /\ Finishing(s) =>
                \A k \in Range(iter[s].failed) :
                    k \notin Members(active_connections', room[s])
          /\ CleanedUp(s) =>
                /\ pc[s] = "update_room_code" => pc'[s] = "update_room_code"
                /\ pc[s] \in {"updated", "bcast"} /\ pc'[s] # pc[s] =>
                      /\ store' = store
                      /\ \A k \in Sessions \ {s} : inbox'[k] = inbox[k]]_vars

\* C20: a recipient whose send never returns does not block the broadcaster:
\* every broadcast that began eventually ends, and every member of the room
\* when it began (the sender apart) that is not itself stalled eventually has
\* the update's send attempted, or has left the room.
C20_StalledRecipientDoesNotBlock ==
    /\ \A s \in Sessions : (pc[s] = "bcast") ~> (pc[s] # "bcast")
    /\ \A s \in Sessions : \A k \in Sessions \ {s} :
          (pc[s] = "bcast" /\ k \in iter[s].targets
              /\ transport[k] # "stalled")
          ~> (\/ Attempts(inbox, iter[s], s, k) >= 1
              \/ k \notin Registered(room[s])
              \/ transport[k] = "stalled")

\* C21: whenever the transport of a registered connection is closed, the
\* task serving it eventually ends and the connection is eventually in no
\* room's list.
C21_ClosedTransportIsCleanedUp ==
    \A s \in Sessions :
        (transport[s] = "closed" /\ s \in Registered(room[s]))
        ~> (pc[s] = "closed" /\ \A r \in Rooms : s \notin Registered(r))

\* C22: the texts of one connection are processed in the order received.
\* When a connection's next text is received, the dispatch of its previous
\* one has ended: update_room_code was run for it if it was a code_update and
\* no broadcast of the connection is under way.  And the code_updates of one
\* sender stand in every client's inbox in the order the sender's texts were
\* received.
C22_SenderOrder ==
    /\ [](\A k \in Sessions : \A i \in 1..Len(inbox[k]) : \A j \in 1..Len(inbox[k]) :
             i < j /\ inbox[k][i].type = "code_update"
                   /\ IsUpdateFrom(inbox[k][j], inbox[k][i].src) =>
             inbox[k][i].mid < inbox[k][j].mid)
    /\ [][\A s \in Sessions :
             cur'[s].mid # cur[s].mid =>
                /\ pc[s] = "recv" /\ iter[s] = NoIter
                /\ cur[s].kind = "code_update" => cur[s].calls >= 1]_vars

\* Reached: a client holds two code_updates of the same sender, the second of
\* which is the room's code, and the sender awaits its next text.
C22_Witness ==
    \E s \in Sessions : \E k \in Sessions \ {s} :
        /\ pc[s] = "recv" /\ cur[s].mid = 2
        /\ \E i \in 1..Len(inbox[k]) : \E j \in 1..Len(inbox[k]) :
              /\ i < j
              /\ IsUpdateFrom(inbox[k][i], s) /\ inbox[k][i].mid = 1
              /\ IsUpdateFrom(inbox[k][j], s) /\ inbox[k][j].mid = 2
              /\ store[room[s]] = inbox[k][j].code

\* The step ends the dispatch of a text of connection s that is not
\* fulfilled: a text that is no valid code_update, or a code_update whose
\* store update failed.
EndsUnfulfilled(s) ==
    \/ cur'[s].mid # cur[s].mid /\ cur'[s].kind # "code_update"
    \/ pc[s] = "updated" /\ pc'[s] # "updated" /\ cur[s].res # "ok"

\* C23: every text that is not fulfilled (malformed, of unknown type, without
\* code, or whose store update failed) has an outcome its sender sees: when
\* its dispatch ends and the sender's socket is open, an error message is
\* delivered to the sender or the server closes the connection with a reason.
C23_NoSilentDrop ==
    [][\A s \in Sessions :
          EndsUnfulfilled(s) /\ transport[s] = "open" =>
             \/ /\ Len(inbox'[s]) = Len(inbox[s]) + 1
                /\ Last(inbox'[s]).type = "error"
             \/ close_reason'[s] # NoVal]_vars

\* The places of the registry that hold connection s.
Occurrences(ac, s) ==
    {<<r, i>> \in Rooms \X (1..NSessions) :
        r \in DOMAIN ac /\ i <= Len(ac[r]) /\ ac[r][i] = s}

\* C24: in every reachable state each connection stands in the list of at
\* most one room, at most once, and that room is the one it connected to; so
\* one disconnect of it leaves it nowhere in the registry.
C24_ExclusiveMembership ==
    \A s \in Sessions :
        /\ Cardinality(Occurrences(active_connections, s)) <= 1
        /\ \A r \in Rooms : s \in Registered(r) => r = room[s]
        /\ \A r \in DOMAIN active_connections :
              Len(active_connections[r]) <= NSessions
        /\ Occurrences(disconnect(active_connections, room[s], s), s) = {}

\* Reached: two rooms have members at once, and a third connection that was
\* served has been disconnected.
C24_Witness ==
    \E s \in Sessions : \E k \in Sessions : \E u \in Sessions :
        /\ room[s] # room[k]
        /\ s \in Registered(room[s]) /\ k \in Registered(room[k])
        /\ pc[u] = "closed" /\ Len(inbox[u]) > 0
        /\ Occurrences(active_connections, u) = {}

\* The code_updates delivered to client k, in order.
RECURSIVE Updates(_)
Updates(l) ==
    IF l = <<>> THEN <<>>
    ELSE IF l[1].type = "code_update" THEN <<l[1]>> \o Updates(Tail(l))
    ELSE Updates(Tail(l))
\* No code_update of room r is between its receipt and the end of its
\* broadcast.
NoUpdateInFlight(r) ==
    \A s \in Sessions :
        room[s] = r => pc[s] \notin {"update_room_code", "updated", "bcast"}

\* C25: a client that was delivered the code_updates of two different senders
\* of its room got them in the order the store applied them: once no update
\* of the room is in flight, the code of the last code_update it was
\* delivered is the room's code in the store.
C25_BroadcastInCommitOrder ==
    \A k \in Sessions :
        LET u == Updates(inbox[k])
        IN  Len(u) >= 2 /\ u[1].src # u[2].src /\ NoUpdateInFlight(room[k]) =>
               Last(u).code = store[room[k]]

\* The room contents delivered to client k, in order: the initial_state and
\* the code_updates.
RECURSIVE Contents(_)
Contents(l) ==
    IF l = <<>> THEN <<>>
    ELSE IF l[1].type \in {"initial_state", "code_update"}
         THEN <<l[1]>> \o Contents(Tail(l))
         ELSE Contents(Tail(l))

\* C26: a newcomer's snapshot is never stale and loses no update: every
\* committed update is in its initial_state or is delivered to it after the
\* initial_state.  So once a connection that sent nothing has been delivered
\* its initial_state, is still served, and no update of its room is in flight,
\* the last content it was delivered is the room's code in the store.
C26_SnapshotNeverStale ==
    \A k \in Sessions :
        LET c == Contents(inbox[k])
        IN  /\ pc[k] = "recv" /\ transport[k] = "open" /\ cur[k].mid = 0
            /\ k \in Registered(room[k])
            /\ NoUpdateInFlight(room[k]) /\ c # <<>>
            => Last(c).code = store[room[k]]
====
